---- MODULE Spec2Model ----
(***************************************************************************)
(* The List component of app/src/ui/lib/list/list.tsx: a controlled,       *)
(* virtualized list.  The caller owns the props (row count, selected row,  *)
(* selectability predicate, callbacks); the instance owns the private      *)
(* fields focusRow, scrollToRow, focusItem, grid, updateSizeTimeoutId and  *)
(* the width/height state.                                                 *)
(*                                                                         *)
(* An optional value (T | null, T | undefined) is a set with at most one   *)
(* element: {} is null / undefined, {x} is x.                              *)
(***************************************************************************)
EXTENDS Integers, Sequences, FiniteSets, TLC

\* Largest rowCount of a mounted list.
MaxRows == 2
\* Largest offsetWidth / offsetHeight of the list element.
MaxDim == 1
\* Largest rowCount handed to nextSelectableRow when it is checked on its own.
NavMaxRows == 5
\* Largest scrollTop of the Grid element and of the fake scroll bar.
MaxScroll == 1

VARIABLES
  props,   \* this.props of the List
  list,    \* the List instance: private fields, this.state, and the trace of the running task
  twin,    \* a second List instance given the same props except focusOnHover = true, and the same events
  ev,      \* the event the current task is handling
  nav,     \* the last direct call of the public method nextSelectableRow
  env      \* what the process holds outside the instances: the build and the id pool

vars == <<props, list, twin, ev, nav, env>>

Directions == {"up", "down"}
Keys == {"ArrowDown", "ArrowUp", "Enter", " ", "a"}
AllHandlers == {"onSelectionChanged", "onRowClick", "onRowKeyDown", "onRowMouseDown"}
HandlerConfigs == {AllHandlers, {}, AllHandlers \ {"onRowKeyDown"}}
FocusOnHoverValues == {"undefined", "true", "false"}

\* The build constant __WIN32__.
WIN32 == env.win32

Min(a, b) == IF a < b THEN a ELSE b
Max(a, b) == IF a > b THEN a ELSE b

(***************************************************************************)
(* nextSelectableRow                                                       *)
(***************************************************************************)

\* The % operator of the language: the result takes the sign of the dividend
\* ((-1) % 3 is -1; (-1) % 1 is -0, which is 0 here).
Remainder(a, b) == IF a >= 0 THEN a % b ELSE 0 - ((0 - a) % b)

\* props.canSelectRow is a set of accepted indices; an absent predicate accepts
\* every index.
canSelectRow(p, rowIndex) ==
  IF p.canSelectRow.defined THEN rowIndex \in p.canSelectRow.rows ELSE TRUE

\* The for loop of nextSelectableRow from step i on; probed is the sequence of
\* indices handed to canSelectRow so far.
RECURSIVE walkRows(_, _, _, _, _, _)
walkRows(p, direction, baseRow, rowDelta, i, probed) ==
  IF i >= rowDelta
  THEN [row |-> {}, probed |-> probed]
  ELSE LET delta == IF direction = "up" THEN i * (-1) ELSE i
           nextRow == Remainder(baseRow + delta + p.rowCount, p.rowCount)
       IN  IF canSelectRow(p, nextRow)
           THEN [row |-> {nextRow}, probed |-> Append(probed, nextRow)]
           ELSE walkRows(p, direction, baseRow, rowDelta, i + 1, Append(probed, nextRow))

\* A faulty variant of nextSelectableRow: the loop stops one step early.
nextSelectableRowShort(p, direction, row) ==
  LET baseRow == Min(Max(row, -1), p.rowCount)
      startOutsideList == row < 0 \/ row >= p.rowCount
      rowDelta == IF startOutsideList THEN p.rowCount + 1 ELSE p.rowCount
  IN  walkRows(p, direction, baseRow, rowDelta - 1, 1, <<>>)

nextSelectableRow(p, direction, row) ==
  LET baseRow == Min(Max(row, -1), p.rowCount)
      startOutsideList == row < 0 \/ row >= p.rowCount
      rowDelta == IF startOutsideList THEN p.rowCount + 1 ELSE p.rowCount
  IN  walkRows(p, direction, baseRow, rowDelta, 1, <<>>)

(***************************************************************************)
(* The instance                                                            *)
(***************************************************************************)

\* The fields of a List right after its constructor ran.
NewList ==
  [ phase               |-> "constructed",
    rowIdPrefix         |-> {},       \* this.state.rowIdPrefix
    width               |-> {},       \* this.state.width
    height              |-> {},       \* this.state.height
    grid                |-> FALSE,    \* this.grid is not null
    gridScrollToRow     |-> -1,       \* the scrollToRow prop last handed to the Grid
    focusItem           |-> {},       \* the row whose element this.focusItem refers to
    fakeScroll          |-> FALSE,    \* this.fakeScroll is not null
    lastScroll          |-> "null",
    gridScrollTop       |-> 0,        \* scrollTop of the element of the Grid
    fakeScrollTop       |-> 0,        \* this.fakeScroll.scrollTop
    scrollEvents        |-> {},       \* the scroll events the browser has not dispatched yet
    focusRow            |-> -1,
    scrollToRow         |-> -1,
    observing           |-> FALSE,    \* the resize observer observes this.list
    updateSizeTimeoutId |-> {},
    immediates          |-> {},       \* the deferred onResized calls not yet run or cleared
    updatePending       |-> FALSE,    \* an update of the List is enqueued
    gridUpdatePending   |-> FALSE,    \* an update of the Grid is enqueued
    defaultPrevented    |-> FALSE,    \* event.defaultPrevented of the event being handled
    updates             |-> 0,        \* the updates of the List during the running task
    calls               |-> <<>> ]    \* the calls made out of the component during the running task

Call(L, fn, row, kind) ==
  [L EXCEPT !.calls = Append(@, [fn |-> fn, row |-> row, kind |-> kind])]

\* A new task starts: a fresh event, an empty trace.
StartTask(L) == [L EXCEPT !.calls = <<>>, !.defaultPrevented = FALSE, !.updates = 0]

Truthy(dim) == dim # {} /\ dim # {0}

preventDefault(L, who) ==
  [Call(L, "preventDefault", -1, who) EXCEPT !.defaultPrevented = TRUE]

\* grid.forceUpdate()
gridForceUpdate(L) ==
  [Call(L, "grid.forceUpdate", -1, "grid") EXCEPT !.gridUpdatePending = TRUE]

\* List.forceUpdate: React drops an update of a component that is not mounted.
forceUpdate(L) ==
  LET L1 == IF L.phase = "mounted" THEN [L EXCEPT !.updatePending = TRUE] ELSE L
  IN  IF L1.grid THEN gridForceUpdate(L1) ELSE L1

scrollRowToVisible(L, p, row) ==
  forceUpdate([L EXCEPT !.scrollToRow = row,
                        !.focusRow = IF p.focusOnHover # "false" THEN row ELSE @])

\* props.onSelectionChanged(row, {kind, event}), when subscribed.
onSelectionChanged(L, p, row, kind) ==
  IF "onSelectionChanged" \in p.handlers
  THEN Call(L, "onSelectionChanged", row, kind) ELSE L

moveSelection(L, p, direction) ==
  LET newRow == nextSelectableRow(p, direction, p.selectedRow).row
  IN  IF newRow # {}
      THEN LET r == CHOOSE x \in newRow : TRUE
           IN  scrollRowToVisible(onSelectionChanged(L, p, r, "keyboard"), p, r)
      ELSE L

\* The consumer's props.onRowKeyDown(row, event); prevents says whether it calls
\* event.preventDefault.
consumerRowKeyDown(L, row, prevents) ==
  LET L1 == Call(L, "onRowKeyDown", row, "keyboard")
  IN  IF prevents THEN preventDefault(L1, "consumer") ELSE L1

\* A faulty variant of handleKeyDown: the navigation runs whether or not the
\* default was prevented.
handleKeyDownIgnoringPrevented(L, p, key, prevents) ==
  LET row == p.selectedRow
      L1 == IF row >= 0 /\ "onRowKeyDown" \in p.handlers
            THEN consumerRowKeyDown(L, row, prevents) ELSE L
  IN  IF key = "ArrowDown" THEN preventDefault(moveSelection(L1, p, "down"), "list")
      ELSE IF key = "ArrowUp" THEN preventDefault(moveSelection(L1, p, "up"), "list")
      ELSE L1

handleKeyDown(L, p, key, prevents) ==
  LET row == p.selectedRow
      L1 == IF row >= 0 /\ "onRowKeyDown" \in p.handlers
            THEN consumerRowKeyDown(L, row, prevents) ELSE L
  IN  IF L1.defaultPrevented THEN L1
      ELSE IF key = "ArrowDown" THEN preventDefault(moveSelection(L1, p, "down"), "list")
      ELSE IF key = "ArrowUp" THEN preventDefault(moveSelection(L1, p, "up"), "list")
      ELSE L1

\* A faulty variant of onRowKeyDown: the click is raised whether or not the
\* default was prevented.
onRowKeyDownIgnoringPrevented(L, p, rowIndex, key, prevents) ==
  LET L1 == IF "onRowKeyDown" \in p.handlers
            THEN consumerRowKeyDown(L, rowIndex, prevents) ELSE L
  IN  IF "onRowClick" \in p.handlers /\ key \in {"Enter", " "}
      THEN preventDefault(Call(L1, "onRowClick", rowIndex, "keyboard"), "list")
      ELSE L1

onRowKeyDown(L, p, rowIndex, key, prevents) ==
  LET L1 == IF "onRowKeyDown" \in p.handlers
            THEN consumerRowKeyDown(L, rowIndex, prevents) ELSE L
  IN  IF ~L1.defaultPrevented /\ "onRowClick" \in p.handlers /\ key \in {"Enter", " "}
      THEN preventDefault(Call(L1, "onRowClick", rowIndex, "keyboard"), "list")
      ELSE L1

\* A faulty variant of onRowMouseOver: selectOnHover is not looked at.
onRowMouseOverAlways(L, p, row) ==
  IF canSelectRow(p, row)
     /\ row # p.selectedRow /\ "onSelectionChanged" \in p.handlers
  THEN scrollRowToVisible(onSelectionChanged(L, p, row, "hover"), p, row)
  ELSE L

onRowMouseOver(L, p, row) ==
  IF p.selectOnHover /\ canSelectRow(p, row)
     /\ row # p.selectedRow /\ "onSelectionChanged" \in p.handlers
  THEN scrollRowToVisible(onSelectionChanged(L, p, row, "hover"), p, row)
  ELSE L

onRowMouseDown(L, p, row) ==
  IF canSelectRow(p, row)
  THEN LET L1 == IF "onRowMouseDown" \in p.handlers
                 THEN Call(L, "onRowMouseDown", row, "mouse") ELSE L
       IN  IF row # p.selectedRow THEN onSelectionChanged(L1, p, row, "mouseclick") ELSE L1
  ELSE L

onRowClick(L, p, row) ==
  IF canSelectRow(p, row) /\ "onRowClick" \in p.handlers
  THEN Call(L, "onRowClick", row, "mouseclick") ELSE L

(***************************************************************************)
(* Scrolling                                                               *)
(***************************************************************************)

\* The two scroll containers, and what scrolls one: its own scrolling (the
\* user, or the Grid scrolling to a row) or the mirroring write of the
\* handler of the other.
ScrollTargets == {"grid", "fake"}
ScrollOrigins == {"own", "mirror"}

\* The browser scrolls an element: one scroll event per element is pending
\* however often the element is scrolled before the event is dispatched.
scrolled(L, target, scrollTop, origin) ==
  [L EXCEPT !.gridScrollTop = IF target = "grid" THEN scrollTop ELSE @,
            !.fakeScrollTop = IF target = "fake" THEN scrollTop ELSE @,
            !.scrollEvents = @ \cup {<<target, origin>>}]

\* element.scrollTop = scrollTop: the element scrolls when the value differs
\* from its scroll position.
setScrollTop(L, target, scrollTop) ==
  LET L1 == Call(L, "scrollTop=", scrollTop, target)
      current == IF target = "grid" THEN L.gridScrollTop ELSE L.fakeScrollTop
  IN  IF scrollTop # current THEN scrolled(L1, target, scrollTop, "mirror") ELSE L1

\* The browser dispatches the scroll event of the element.
dispatched(L, target) ==
  [L EXCEPT !.scrollEvents = { e \in @ : e[1] # target }]

onFakeScroll(L) ==
  IF L.lastScroll = "grid"
  THEN [L EXCEPT !.lastScroll = "null"]
  ELSE LET L1 == [L EXCEPT !.lastScroll = "fake"]
       IN  IF L1.grid THEN setScrollTop(L1, "grid", L1.fakeScrollTop) ELSE L1

onScroll(L, p, scrollTop) ==
  LET L1 == IF "onScroll" \in p.handlers THEN Call(L, "onScroll", scrollTop, "grid") ELSE L
  IN  IF WIN32 /\ L1.fakeScroll
      THEN IF L1.lastScroll = "fake"
           THEN [L1 EXCEPT !.lastScroll = "null"]
           ELSE setScrollTop([L1 EXCEPT !.lastScroll = "grid"], "fake", scrollTop)
      ELSE L1

\* The public focus(): the element of a mounted Grid exists.
focus(L, p) ==
  IF p.selectedRow >= 0 /\ p.selectedRow < p.rowCount
  THEN scrollRowToVisible(L, p, p.selectedRow)
  ELSE IF L.grid THEN Call(L, "focus", -1, "grid") ELSE L

(***************************************************************************)
(* Rendering                                                               *)
(***************************************************************************)

\* The rows a Grid of rowCount rows can have in the DOM: a window of
\* consecutive rows, which holds the rows the Grid was told to scroll to.
Windows(rowCount, scrollTo) ==
  { w \in {lo .. hi : lo \in 0 .. rowCount, hi \in -1 .. rowCount - 1} :
      scrollTo \cap (0 .. rowCount - 1) \subseteq w }

\* The row the Grid is told to scroll to in the next update of L.
scrollTarget(L) == IF L.updatePending THEN L.scrollToRow ELSE L.gridScrollToRow

\* The tabIndex renderGrid gives the Grid.
gridTabIndex(p) == IF p.selectedRow < 0 /\ p.rowCount > 0 THEN 0 ELSE -1

\* renderRow for the rows in the DOM, and the ref callbacks React then runs:
\* the element of the row that is focusRow is handed to onFocusedItemRef,
\* and null is when no such row is in the DOM.
renderRows(L, win) ==
  [L EXCEPT !.focusItem = IF L.focusRow \in win THEN {L.focusRow} ELSE {},
            !.gridUpdatePending = FALSE]

\* render() with renderContents and renderGrid, and the commit of the refs.
\* The Grid is a pure component: its rows render again when it is mounted,
\* when an update of it is enqueued, or when a prop it is given changed.
render(L, p, prevProps, prevState, win) ==
  LET L1 == [L EXCEPT !.updatePending = FALSE, !.updates = @ + 1]
  IN  IF Truthy(L.width) /\ Truthy(L.height)
      THEN LET scrollToRow == L.scrollToRow
               gridRenders ==
                 \/ ~L.grid
                 \/ L.gridUpdatePending
                 \/ p.rowCount # prevProps.rowCount
                 \/ L.width # prevState.width
                 \/ L.height # prevState.height
                 \/ scrollToRow # L.gridScrollToRow
                 \/ gridTabIndex(p) # gridTabIndex(prevProps)
               L2 == [L1 EXCEPT !.scrollToRow = -1,
                                !.gridScrollToRow = scrollToRow,
                                !.grid = TRUE,
                                !.fakeScroll = WIN32]
           IN  IF gridRenders THEN renderRows(L2, win) ELSE L2
      ELSE [L1 EXCEPT !.grid = FALSE, !.gridScrollToRow = -1, !.focusItem = {},
                      !.fakeScroll = FALSE, !.gridUpdatePending = FALSE,
                      !.gridScrollTop = 0, !.fakeScrollTop = 0, !.scrollEvents = {}]

\* An object handed over as invalidationProps: its identity and its one field.
InvalidationProps == [ref : 0 .. 1, value : 0 .. 1]

\* The invalidationProps of the props in force, whatever object that is.
PrevInvalidationProps == [ref |-> 0, value |-> 0]

\* shallowEquals: the same object, or objects whose fields are identical.
shallowEquals(x, y) == x.ref = y.ref \/ x.value = y.value

\* A faulty variant of componentDidUpdate: focusRow is not reset.
componentDidUpdateKeepingFocusRow(L, p, prevProps, prevState, invalidationPropsChanged) ==
  IF L.focusRow >= 0 /\ L.focusItem # {}
  THEN LET item == CHOOSE x \in L.focusItem : TRUE
       IN  forceUpdate(Call(L, "focus", item, "row"))
  ELSE IF L.grid
  THEN LET gridHasUpdatedAlready ==
             \/ p.rowCount # prevProps.rowCount
             \/ L.width # prevState.width
             \/ L.height # prevState.height
           selectedRowChanged == prevProps.selectedRow # p.selectedRow
       IN  IF ~gridHasUpdatedAlready /\ (selectedRowChanged \/ invalidationPropsChanged)
           THEN gridForceUpdate(L)
           ELSE L
  ELSE L

\* A faulty variant of componentDidUpdate: gridHasUpdatedAlready is not looked
\* at.
componentDidUpdateForcingAnyway(L, p, prevProps, prevState, invalidationPropsChanged) ==
  IF L.focusRow >= 0 /\ L.focusItem # {}
  THEN LET item == CHOOSE x \in L.focusItem : TRUE
       IN  forceUpdate([Call(L, "focus", item, "row") EXCEPT !.focusRow = -1])
  ELSE IF L.grid
  THEN LET selectedRowChanged == prevProps.selectedRow # p.selectedRow
       IN  IF selectedRowChanged \/ invalidationPropsChanged
           THEN gridForceUpdate(L)
           ELSE L
  ELSE L

\* invalidationPropsChanged is !shallowEquals(prevProps.invalidationProps,
\* this.props.invalidationProps).
componentDidUpdate(L, p, prevProps, prevState, invalidationPropsChanged) ==
  IF L.focusRow >= 0 /\ L.focusItem # {}
  THEN LET item == CHOOSE x \in L.focusItem : TRUE
       IN  forceUpdate([Call(L, "focus", item, "row") EXCEPT !.focusRow = -1])
  ELSE IF L.grid
  THEN LET gridHasUpdatedAlready ==
             \/ p.rowCount # prevProps.rowCount
             \/ L.width # prevState.width
             \/ L.height # prevState.height
           selectedRowChanged == prevProps.selectedRow # p.selectedRow
       IN  IF ~gridHasUpdatedAlready /\ (selectedRowChanged \/ invalidationPropsChanged)
           THEN gridForceUpdate(L)
           ELSE L
  ELSE L

\* One update of the List: render, commit, componentDidUpdate.
updateList(L, p, prevProps, prevState, invalidationPropsChanged, win) ==
  componentDidUpdate(render(L, p, prevProps, prevState, win),
                     p, prevProps, prevState, invalidationPropsChanged)

\* React works off what is enqueued: an update of the List (which renders the
\* Grid as well), or else an update of the Grid alone.
flush(L, p, win) ==
  IF L.updatePending THEN updateList(L, p, p, L, FALSE, win)
  ELSE IF L.gridUpdatePending THEN renderRows(L, win)
  ELSE L

\* The id pool: a token is the prefix alone (suffix 0) or the prefix and the
\* first suffix not in use.
PoolSize == 100
createUniqueId(activeIds, prefix) ==
  <<prefix, CHOOSE i \in 0 .. PoolSize - 1 :
              /\ <<prefix, i>> \notin activeIds
              /\ \A j \in 0 .. i - 1 : <<prefix, j>> \in activeIds>>

releaseUniqueId(activeIds, id) == activeIds \ {id}

\* componentWillMount, given the token createUniqueId returned.
componentWillMount(L, id) == [L EXCEPT !.rowIdPrefix = {id}]

\* onRef: the observer is disconnected, and observes the element when there is
\* one.  With null the List is being unmounted, and React drops the setState.
onRef(L, element) == [L EXCEPT !.observing = element]

\* The mount of the List: componentWillMount, the first render (state.width
\* is undefined, so no Grid is rendered) and onRef with the list element.
mount(L, id) == onRef([componentWillMount(L, id) EXCEPT !.phase = "mounted"], TRUE)

\* clearImmediate(id)
clearImmediate(L, id) ==
  [Call(L, "clearImmediate", id, "list") EXCEPT !.immediates = @ \ {id}]

\* The if statement that opens componentWillUnmount and the callback of the
\* observer: a pending deferred callback is cleared.
clearPending(L) ==
  IF L.updateSizeTimeoutId # {}
  THEN clearImmediate(L, CHOOSE id \in L.updateSizeTimeoutId : TRUE)
  ELSE L

\* A faulty variant of componentWillUnmount: the deferred callback is not
\* cleared.
componentWillUnmountKeepingImmediate(L, activeIds) ==
  [inst |-> [L EXCEPT !.updateSizeTimeoutId = {}, !.observing = FALSE],
   activeIds |-> IF L.rowIdPrefix # {}
                 THEN releaseUniqueId(activeIds, CHOOSE id \in L.rowIdPrefix : TRUE)
                 ELSE activeIds]

\* A faulty variant of componentWillUnmount: the token is not released.
componentWillUnmountKeepingId(L, activeIds) ==
  [inst |-> [clearPending(L) EXCEPT !.updateSizeTimeoutId = {}, !.observing = FALSE],
   activeIds |-> activeIds]

\* componentWillUnmount: the instance and the id pool after it.
componentWillUnmount(L, activeIds) ==
  [inst |-> [clearPending(L) EXCEPT !.updateSizeTimeoutId = {}, !.observing = FALSE],
   activeIds |-> IF L.rowIdPrefix # {}
                 THEN releaseUniqueId(activeIds, CHOOSE id \in L.rowIdPrefix : TRUE)
                 ELSE activeIds]

\* The unmount of the List: componentWillUnmount, then React detaches the refs
\* (onRef, onGridRef, onFakeScrollRef and onFocusedItemRef get null).
unmount(L, activeIds) ==
  LET after == componentWillUnmount(L, activeIds)
  IN  [after EXCEPT !.inst = [onRef(after.inst, FALSE)
                                EXCEPT !.phase = "unmounted", !.grid = FALSE,
                                       !.gridScrollToRow = -1, !.fakeScroll = FALSE,
                                       !.focusItem = {}, !.gridScrollTop = 0,
                                       !.fakeScrollTop = 0, !.scrollEvents = {}]]

\* A faulty variant of resizeObserved: the pending callback is not cleared.
resizeObservedWithoutClear(L) ==
  LET id == CHOOSE n \in 1 .. Cardinality(L.immediates) + 1 : n \notin L.immediates
  IN  [L EXCEPT !.immediates = @ \cup {id}, !.updateSizeTimeoutId = {id}]

\* The callback given to the ResizeObserver, for an entry whose target is
\* this.list.  setImmediate returns a handle that is not in use.
resizeObserved(L) ==
  LET id == CHOOSE n \in 1 .. Cardinality(L.immediates) + 1 : n \notin L.immediates
  IN  [clearPending(L) EXCEPT !.immediates = @ \cup {id}, !.updateSizeTimeoutId = {id}]

onResized(L, p, id, width, height, win) ==
  LET L0 == [L EXCEPT !.immediates = @ \ {id}, !.updateSizeTimeoutId = {}]
      L1 == Call(Call(L0, "offsetWidth", width, "list"), "offsetHeight", height, "list")
  IN  IF L1.width # {width} \/ L1.height # {height}
      THEN updateList([L1 EXCEPT !.width = {width}, !.height = {height}],
                      p, p, L1, FALSE, win)
      ELSE L1

(***************************************************************************)
(* The state machine                                                       *)
(***************************************************************************)

\* The props of the twin.
TwinProps(p) == [p EXCEPT !.focusOnHover = "true"]

\* An event: what happened, on which row, with which key, and whether the
\* consumer's onRowKeyDown calls event.preventDefault each time it is called.
\* A props event carries the invalidationProps of the new props as well, and a
\* scroll event what scrolled the element.
Event(op, row, key, prevents) ==
  [op |-> op, row |-> row, key |-> key, prevents |-> prevents,
   invalidationProps |-> PrevInvalidationProps, origins |-> {}]

\* A scroll event of an element, and what scrolled the element since its
\* last scroll event.
ScrollEvent(op, L, target) ==
  [Event(op, -1, "", <<>>)
     EXCEPT !.origins = { e[2] : e \in { x \in L.scrollEvents : x[1] = target } }]
NoEvent == Event("none", -1, "", <<>>)

\* React has nothing enqueued: the running task is over.
Idle == /\ ~list.updatePending /\ ~list.gridUpdatePending
        /\ ~twin.updatePending /\ ~twin.gridUpdatePending

\* No task is running: the event loop can run the next one.
Ready == Idle /\ ev = NoEvent

\* The rows of the list are in the DOM and can receive events.
Interactive == Ready /\ list.phase = "mounted" /\ list.grid

\* Whether the consumer's onRowKeyDown can call event.preventDefault.
Prevents(p) == IF "onRowKeyDown" \in p.handlers THEN BOOLEAN ELSE {FALSE}
NoCall == [called |-> FALSE, direction |-> "down", from |-> -1, row |-> {}, probed |-> <<>>]

\* The props a caller can give a list of at most rows rows: selectedRow is at
\* most one past either end, and the predicate is absent or decides every index
\* from -1 on.
PropsOver(rows, handlerSets, selectOnHovers, focusOnHovers) ==
  { p \in [rowCount : 0 .. rows, selectedRow : -1 .. rows,
           canSelectRow : {[defined |-> FALSE, rows |-> {}]}
                          \cup [defined : {TRUE}, rows : SUBSET (-1 .. rows - 1)],
           selectOnHover : selectOnHovers, focusOnHover : focusOnHovers,
           handlers : handlerSets] :
      /\ p.selectedRow <= p.rowCount
      /\ p.canSelectRow.rows \subseteq -1 .. p.rowCount - 1 }

\* Both instances constructed, nothing mounted.
Constructed ==
  /\ list = NewList
  /\ twin = NewList
  /\ ev = NoEvent
  /\ nav = NoCall

\* The process: one of the builds, no id handed out yet.
Process(builds) == env \in [win32 : builds, activeIds : {{}}]

Init ==
  /\ props \in PropsOver(MaxRows, HandlerConfigs, BOOLEAN, FocusOnHoverValues)
  /\ Constructed
  /\ Process({FALSE})

\* The task of one event: both instances handle it.
Task(event, L, T) ==
  /\ ev' = event
  /\ list' = L
  /\ twin' = T
  /\ UNCHANGED <<props, nav, env>>

\* React mounts the two Lists, one after the other.
Mount ==
  /\ Ready /\ list.phase = "constructed"
  /\ LET id == createUniqueId(env.activeIds, "ListRow")
         twinId == createUniqueId(env.activeIds \cup {id}, "ListRow")
     IN  /\ ev' = Event("mount", -1, "", <<>>)
         /\ list' = mount(StartTask(list), id)
         /\ twin' = mount(StartTask(twin), twinId)
         /\ env' = [env EXCEPT !.activeIds = @ \cup {id, twinId}]
         /\ UNCHANGED <<props, nav>>

\* React unmounts the two Lists.
Unmount ==
  /\ Ready /\ list.phase = "mounted"
  /\ LET L == unmount(StartTask(list), env.activeIds)
         T == unmount(StartTask(twin), L.activeIds)
     IN  /\ ev' = Event("unmount", -1, "", <<>>)
         /\ list' = L.inst
         /\ twin' = T.inst
         /\ env' = [env EXCEPT !.activeIds = T.activeIds]
         /\ UNCHANGED <<props, nav>>

ResizeObserved ==
  /\ Ready /\ list.observing
  /\ Task(Event("resize", -1, "", <<>>),
          resizeObserved(StartTask(list)), resizeObserved(StartTask(twin)))

OnResized ==
  /\ Ready
  /\ \E id \in list.immediates, width \in 0 .. MaxDim, height \in 0 .. MaxDim :
       \E win \in Windows(props.rowCount, {list.scrollToRow, twin.scrollToRow}) :
         Task(Event("onResized", -1, "", <<>>),
              onResized(StartTask(list), props, id, width, height, win),
              onResized(StartTask(twin), TwinProps(props), id, width, height, win))

\* The parent renders the List again: with a new rowCount, selectedRow or
\* invalidationProps, or with the same.
ReceiveProps ==
  /\ Ready /\ list.phase = "mounted"
  /\ \E rows \in 0 .. MaxRows, inv \in InvalidationProps :
     \E sel \in -1 .. rows :
       LET next == [props EXCEPT !.rowCount = rows, !.selectedRow = sel,
                                 !.canSelectRow.rows = @ \cap (-1 .. rows - 1)]
           changed == ~shallowEquals(PrevInvalidationProps, inv)
       IN  \E win \in Windows(rows, {list.scrollToRow, twin.scrollToRow}) :
             /\ props' = next
             /\ ev' = [Event("props", sel, "", <<>>) EXCEPT !.invalidationProps = inv]
             /\ list' = updateList(StartTask(list), next, props, list, changed, win)
             /\ twin' = updateList(StartTask(twin), TwinProps(next), TwinProps(props),
                                   twin, changed, win)
             /\ UNCHANGED <<nav, env>>

KeyDownOnList ==
  /\ Interactive
  /\ \E key \in Keys, prevents \in Prevents(props) :
       Task(Event("keydown", -1, key, <<prevents>>),
            handleKeyDown(StartTask(list), props, key, prevents),
            handleKeyDown(StartTask(twin), TwinProps(props), key, prevents))

\* A key down on a row: the row's handler, then the list's as the event bubbles.
KeyDownOnRow ==
  /\ Interactive
  /\ \E row \in 0 .. props.rowCount - 1, key \in Keys,
        p1 \in Prevents(props), p2 \in Prevents(props) :
       Task(Event("rowkeydown", row, key, <<p1, p2>>),
            handleKeyDown(onRowKeyDown(StartTask(list), props, row, key, p1),
                          props, key, p2),
            handleKeyDown(onRowKeyDown(StartTask(twin), TwinProps(props), row, key, p1),
                          TwinProps(props), key, p2))

MouseDownOnRow ==
  /\ Interactive
  /\ \E row \in 0 .. props.rowCount - 1 :
       Task(Event("mousedown", row, "", <<>>),
            onRowMouseDown(StartTask(list), props, row),
            onRowMouseDown(StartTask(twin), TwinProps(props), row))

MouseOverRow ==
  /\ Interactive
  /\ \E row \in 0 .. props.rowCount - 1 :
       Task(Event("mouseover", row, "", <<>>),
            onRowMouseOver(StartTask(list), props, row),
            onRowMouseOver(StartTask(twin), TwinProps(props), row))

ClickOnRow ==
  /\ Interactive
  /\ \E row \in 0 .. props.rowCount - 1 :
       Task(Event("click", row, "", <<>>),
            onRowClick(StartTask(list), props, row),
            onRowClick(StartTask(twin), TwinProps(props), row))

\* A caller holds the List through a ref, which React clears on unmount.
CallFocus ==
  /\ Ready /\ list.phase # "unmounted"
  /\ Task(Event("focus", -1, "", <<>>),
          focus(StartTask(list), props), focus(StartTask(twin), TwinProps(props)))

\* React flushes what the running task enqueued, before the next task.
Render ==
  /\ ~Idle
  /\ \E win \in Windows(props.rowCount, {scrollTarget(list), scrollTarget(twin)}) :
       /\ list' = flush(list, props, win)
       /\ twin' = flush(twin, TwinProps(props), win)
       /\ UNCHANGED <<props, ev, nav, env>>

\* The task returns to the event loop: its event and its trace are dropped.
EndTask ==
  /\ Idle /\ ev # NoEvent
  /\ ev' = NoEvent
  /\ list' = StartTask(list)
  /\ twin' = StartTask(twin)
  /\ UNCHANGED <<props, nav, env>>

Next ==
  \/ Mount
  \/ Unmount
  \/ ResizeObserved
  \/ OnResized
  \/ ReceiveProps
  \/ KeyDownOnList
  \/ KeyDownOnRow
  \/ MouseDownOnRow
  \/ MouseOverRow
  \/ ClickOnRow
  \/ CallFocus
  \/ Render
  \/ EndTask

Spec == Init /\ [][Next]_vars

(***************************************************************************)
(* Scrolling on the build with the fake scroll bar                         *)
(***************************************************************************)

\* The Grid element is scrolled, by the user or by the Grid itself.
ScrollGrid ==
  /\ Ready /\ list.grid
  /\ \E scrollTop \in (0 .. MaxScroll) \ {list.gridScrollTop} :
       /\ list' = scrolled(list, "grid", scrollTop, "own")
       /\ twin' = scrolled(twin, "grid", scrollTop, "own")
       /\ UNCHANGED <<props, ev, nav, env>>

\* The user scrolls the fake scroll bar.
ScrollFake ==
  /\ Ready /\ list.fakeScroll
  /\ \E scrollTop \in (0 .. MaxScroll) \ {list.fakeScrollTop} :
       /\ list' = scrolled(list, "fake", scrollTop, "own")
       /\ twin' = scrolled(twin, "fake", scrollTop, "own")
       /\ UNCHANGED <<props, ev, nav, env>>

\* The scroll event of the Grid element: the Grid calls its onScroll prop.
GridScrollEvent ==
  /\ Ready
  /\ \E e \in list.scrollEvents : e[1] = "grid"
  /\ Task(ScrollEvent("gridscroll", list, "grid"),
          onScroll(dispatched(StartTask(list), "grid"), props, list.gridScrollTop),
          onScroll(dispatched(StartTask(twin), "grid"), TwinProps(props), twin.gridScrollTop))

\* The scroll event of the fake scroll bar.
FakeScrollEvent ==
  /\ Ready
  /\ \E e \in list.scrollEvents : e[1] = "fake"
  /\ Task(ScrollEvent("fakescroll", list, "fake"),
          onFakeScroll(dispatched(StartTask(list), "fake")),
          onFakeScroll(dispatched(StartTask(twin), "fake")))

NextScroll ==
  \/ Next
  \/ ScrollGrid
  \/ ScrollFake
  \/ GridScrollEvent
  \/ FakeScrollEvent

\* A list that subscribes to every callback and to onScroll, in the build
\* with the fake scroll bar.
InitScroll ==
  /\ props \in { p \in PropsOver(MaxRows, {AllHandlers \cup {"onScroll"}}, {FALSE}, {"undefined"}) :
                   ~p.canSelectRow.defined /\ p.rowCount = MaxRows }
  /\ Constructed
  /\ Process({TRUE})

SpecScroll == InitScroll /\ [][NextScroll]_vars

\* The subscriptions that differ in the callbacks a key down can raise.
KeyHandlerConfigs ==
  { H \in SUBSET AllHandlers : {"onSelectionChanged", "onRowMouseDown"} \subseteq H }

\* The restriction of Spec to lists without hover selection and without a
\* selectability predicate that accepts a row, under every subscription of
\* onRowClick and onRowKeyDown.
InitRowKeys ==
  /\ props \in { p \in PropsOver(MaxRows, KeyHandlerConfigs, {FALSE}, {"undefined"}) :
                   p.canSelectRow.rows = {} }
  /\ Constructed
  /\ Process({FALSE})

SpecRowKeys == InitRowKeys /\ [][Next]_vars

\* The restriction of Spec to lists that subscribe to every callback and do
\* not set focusOnHover, with and without hover selection.
InitHover ==
  /\ props \in PropsOver(MaxRows, {AllHandlers}, BOOLEAN, {"undefined"})
  /\ Constructed
  /\ Process({FALSE})

SpecHover == InitHover /\ [][Next]_vars

\* The restriction of Spec to lists that subscribe to every callback, select
\* by click and key only and have no selectability predicate.
InitLifecycle ==
  /\ props \in { p \in PropsOver(MaxRows, {AllHandlers}, {FALSE}, {"undefined"}) :
                   ~p.canSelectRow.defined }
  /\ Constructed
  /\ Process({FALSE})

SpecLifecycle == InitLifecycle /\ [][Next]_vars

(***************************************************************************)
(* nextSelectableRow on its own                                            *)
(***************************************************************************)

InitNav ==
  /\ props \in { p \in PropsOver(NavMaxRows, {AllHandlers}, {FALSE}, {"undefined"}) :
                   p.selectedRow = -1 }
  /\ Constructed
  /\ Process({FALSE})

\* A caller calls the public nextSelectableRow(direction, row).
CallNextSelectableRow ==
  \E direction \in Directions, row \in -2 .. props.rowCount + 1 :
    LET found == nextSelectableRow(props, direction, row)
    IN  /\ nav' = [called |-> TRUE, direction |-> direction, from |-> row,
                   row |-> found.row, probed |-> found.probed]
        /\ UNCHANGED <<props, list, twin, ev, env>>

NextNav == CallNextSelectableRow

SpecNav == InitNav /\ [][NextNav]_vars

(***************************************************************************)
(* Properties                                                              *)
(***************************************************************************)

InList(row) == row \in 0 .. props.rowCount - 1

\* The rows of the list the predicate accepts.
Selectable == { r \in 0 .. props.rowCount - 1 : canSelectRow(props, r) }

\* The row k steps away from row in the direction, around the list.
StepRow(direction, row, k) ==
  IF direction = "down" THEN (row + k) % props.rowCount
  ELSE (row + k * props.rowCount - k) % props.rowCount

SetMin(S) == CHOOSE x \in S : \A y \in S : x <= y
SetMax(S) == CHOOSE x \in S : \A y \in S : x >= y

\* The entries of a trace that are calls of fn.
CallsOf(calls, fn) == { i \in 1 .. Len(calls) : calls[i].fn = fn }

\* The calls of focus() on row elements, in order.
FocusCalls(calls) == SelectSeq(calls, LAMBDA c : c.fn = "focus" /\ c.kind = "row")

Called(calls, fn, row, kind) ==
  \E i \in 1 .. Len(calls) : calls[i] = [fn |-> fn, row |-> row, kind |-> kind]

\* C1: from a start row inside a list of at least one row, nextSelectableRow
\* returns the first row that canSelectRow accepts among the rows met stepping
\* from the start row one at a time in the direction, wrapping around the list
\* (the other rowCount - 1 rows), and probes exactly the rows up to it; it
\* returns null when none of them is accepted.
C1_FirstAcceptedRow ==
  (nav.called /\ props.rowCount >= 1 /\ InList(nav.from)) =>
    LET hits == { k \in 1 .. props.rowCount - 1 :
                    canSelectRow(props, StepRow(nav.direction, nav.from, k)) }
    IN  IF hits = {}
        THEN nav.row = {}
        ELSE /\ nav.row = {StepRow(nav.direction, nav.from, SetMin(hits))}
             /\ nav.probed = [k \in 1 .. SetMin(hits) |-> StepRow(nav.direction, nav.from, k)]

\* rowCount = 5, only row 2 unselectable: down from row 1 gives row 3.
C1_Witness ==
  /\ nav.called /\ props.rowCount = 5 /\ props.canSelectRow.defined
  /\ Selectable = {0, 1, 3, 4}
  /\ nav.direction = "down" /\ nav.from = 1 /\ nav.row = {3}
  /\ nav.probed = <<2, 3>>

\* C3: nextSelectableRow hands canSelectRow only indices in [0, rowCount),
\* returns null or an accepted index in [0, rowCount), and returns null when
\* no row of the list is accepted or the list is empty.
C3_OnlyRowsOfTheList ==
  nav.called =>
    /\ \A i \in 1 .. Len(nav.probed) : InList(nav.probed[i])
    /\ nav.row \subseteq Selectable
    /\ Selectable = {} => nav.row = {}

\* C2: with no selected row and at least one row, ArrowDown reports the lowest
\* selectable row and ArrowUp the highest through onSelectionChanged.
C2_FirstOrLastRow ==
  ( /\ ev.op = "keydown" /\ ev.key \in {"ArrowDown", "ArrowUp"}
    /\ props.selectedRow = -1 /\ props.rowCount >= 1
    /\ "onSelectionChanged" \in props.handlers
    /\ Selectable # {} ) =>
    Called(list.calls, "onSelectionChanged",
           IF ev.key = "ArrowDown" THEN SetMin(Selectable) ELSE SetMax(Selectable),
           "keyboard")

\* C4: onSelectionChanged is never invoked with the row that is selected.
C4_NeverTheSelectedRow ==
  \A i \in CallsOf(list.calls, "onSelectionChanged") :
    list.calls[i].row # props.selectedRow

\* The key press of the running task yielded row r.
KeyYielded(r) ==
  /\ ev.op \in {"keydown", "rowkeydown"}
  /\ Called(list.calls, "onSelectionChanged", r, "keyboard")

\* C5: after an arrow key press that yields row r, focus is requested for r
\* (focusRow = r until an update applies it), and once the element of row r is
\* registered componentDidUpdate calls focus() on it: with the Grid in place,
\* the task of the key press ends with focus() called on the element of row r.
C5_KeyboardMovesFocus ==
  \A r \in 0 .. props.rowCount - 1 :
    KeyYielded(r) =>
      /\ list.updates = 0 => list.focusRow = r
      /\ (Idle /\ list.grid) => Called(list.calls, "focus", r, "row")

\* The two lists have the same focusRow and made the same focus() calls on
\* row elements in the running task.
SameFocus ==
  /\ list.focusRow = twin.focusRow
  /\ FocusCalls(list.calls) = FocusCalls(twin.calls)

\* C6: without selectOnHover, a list with any focusOnHover and a list with
\* focusOnHover = true, given the same events, have the same focusRow and make
\* the same focus() calls on row elements: two rendered lists that agree so
\* far agree after the next step.
C6_FocusOnHoverHasNoEffect ==
  [][ (~props.selectOnHover /\ list.grid /\ SameFocus) => SameFocus' ]_vars

\* C7: focus() on a list whose Grid is mounted: with selectedRow in the list,
\* scrollToRow = selectedRow is requested and the task ends with focus() called
\* on the element of the selected row; otherwise the Grid element is focused
\* and no row focus is requested.
C7_FocusSelectedRowOrGrid ==
  (ev.op = "focus" /\ list.grid) =>
    IF InList(props.selectedRow)
    THEN /\ list.updates = 0 => list.scrollToRow = props.selectedRow
         /\ Idle => Called(list.calls, "focus", props.selectedRow, "row")
    ELSE /\ list.calls = <<[fn |-> "focus", row |-> -1, kind |-> "grid"]>>
         /\ list.focusRow = -1
         /\ ~list.updatePending

\* C8: focus() before the list is mounted focuses nothing, leaves focusRow and
\* scrollToRow unchanged and enqueues no update.
C8_FocusBeforeMountIsNoop ==
  [][ (list.phase = "constructed" /\ ev'.op = "focus") =>
        /\ list'.focusRow = list.focusRow
        /\ list'.scrollToRow = list.scrollToRow
        /\ CallsOf(list'.calls, "focus") = {}
        /\ ~list'.updatePending /\ ~list'.gridUpdatePending ]_vars

\* C9: on a key down on a row, with onRowClick subscribed: Enter or Space
\* raises onRowClick(row, keyboard) and then calls event.preventDefault, unless
\* the consumer's onRowKeyDown prevented the default, and then onRowClick is
\* not raised; the consumer's onRowKeyDown runs first; no other key, and no
\* key down on the list itself, raises onRowClick.
C9_EnterOrSpaceClicks ==
  LET calls == list.calls
      clicks == CallsOf(calls, "onRowClick")
      consumer == "onRowKeyDown" \in props.handlers
      prevented == consumer /\ ev.prevents[1]
  IN  /\ ev.op = "keydown" => clicks = {}
      /\ ev.op = "rowkeydown" =>
           /\ consumer => calls[1] = [fn |-> "onRowKeyDown", row |-> ev.row, kind |-> "keyboard"]
           /\ \A i \in clicks :
                /\ calls[i] = [fn |-> "onRowClick", row |-> ev.row, kind |-> "keyboard"]
                /\ consumer => i > 1
           /\ Cardinality(clicks) <= 1
           /\ (ev.key \in {"Enter", " "} /\ "onRowClick" \in props.handlers /\ ~prevented) =>
                \E i \in clicks :
                  /\ i < Len(calls)
                  /\ calls[i + 1] = [fn |-> "preventDefault", row |-> -1, kind |-> "list"]
           /\ prevented => clicks = {}
           /\ ev.key \notin {"Enter", " "} => clicks = {}

\* Enter on a row, the consumer's onRowKeyDown ran and did not prevent the
\* default: onRowClick was raised.
C9_Witness ==
  /\ ev.op = "rowkeydown" /\ ev.key = "Enter"
  /\ "onRowKeyDown" \in props.handlers /\ ~ev.prevents[1]
  /\ Called(list.calls, "onRowClick", ev.row, "keyboard")
  /\ Called(list.calls, "preventDefault", -1, "list")

\* C10: onRowMouseDown is raised for every mouse down on a row.
C10_EveryMouseDownRaised ==
  (ev.op = "mousedown" /\ "onRowMouseDown" \in props.handlers) =>
    Called(list.calls, "onRowMouseDown", ev.row, "mouse")

\* C11: a key down received by the list container, on the list itself or
\* bubbling from a row.  When the consumer's onRowKeyDown called
\* event.preventDefault, onSelectionChanged is not invoked and focusRow and
\* scrollToRow are unchanged.  Otherwise ArrowDown and ArrowUp run the
\* selection move (the row found is reported, to a subscriber of
\* onSelectionChanged, and scrolled to; nothing is reported when no row
\* qualifies) and the event ends default-prevented by the
\* list either way; any other key reports no row, leaves focusRow and
\* scrollToRow unchanged, and the list's key handler does not prevent its
\* default.
C11_PreventedKeyDoesNotNavigate ==
  [][ (ev.op = "none" /\ ev'.op \in {"keydown", "rowkeydown"}) =>
        LET calls == list'.calls
            selections == CallsOf(calls, "onSelectionChanged")
            untouched == /\ selections = {}
                         /\ list'.focusRow = list.focusRow
                         /\ list'.scrollToRow = list.scrollToRow
                         /\ ~list'.updatePending
            direction == IF ev'.key = "ArrowDown" THEN "down" ELSE "up"
            found == nextSelectableRow(props, direction, props.selectedRow).row
        IN  IF Called(calls, "preventDefault", -1, "consumer")
            THEN untouched
            ELSE IF ev'.key \in {"ArrowDown", "ArrowUp"}
            THEN /\ list'.defaultPrevented
                 /\ calls[Len(calls)] = [fn |-> "preventDefault", row |-> -1, kind |-> "list"]
                 /\ IF found = {} THEN untouched
                    ELSE \E r \in found :
                           /\ \A i \in selections :
                                calls[i] = [fn |-> "onSelectionChanged", row |-> r,
                                            kind |-> "keyboard"]
                           /\ Cardinality(selections)
                                = IF "onSelectionChanged" \in props.handlers THEN 1 ELSE 0
                           /\ list'.scrollToRow = r
                           /\ list'.updatePending
            ELSE /\ untouched
                 /\ ev'.op = "keydown" => ~list'.defaultPrevented ]_vars

\* ArrowDown on a list of two selectable rows with row 0 selected, and the
\* consumer's onRowKeyDown prevented the default: nothing else was called.
C11_Witness ==
  /\ ev.op = "keydown" /\ ev.key = "ArrowDown"
  /\ props.rowCount = 2 /\ props.selectedRow = 0 /\ ~props.canSelectRow.defined
  /\ list.calls = <<[fn |-> "onRowKeyDown", row |-> 0, kind |-> "keyboard"],
                    [fn |-> "preventDefault", row |-> -1, kind |-> "consumer"]>>
  /\ list.focusRow = -1

\* C12: onSelectionChanged with source kind hover is invoked only by a
\* mouse-over, for the row under the pointer, and only if selectOnHover is set,
\* canSelectRow accepts the row and the row is not selectedRow; without
\* selectOnHover a mouse-over invokes no callback, leaves focusRow and
\* scrollToRow unchanged and enqueues no update.
C12_HoverSelectsOnlyWhenEnabled ==
  [][ LET calls == list'.calls
      IN  /\ \A i \in 1 .. Len(calls) :
                (calls[i].kind = "hover" /\ ev.op = "none") =>
                  /\ ev'.op = "mouseover"
                  /\ calls[i] = [fn |-> "onSelectionChanged", row |-> ev'.row, kind |-> "hover"]
                  /\ props.selectOnHover
                  /\ canSelectRow(props, ev'.row)
                  /\ ev'.row # props.selectedRow
          /\ (ev.op = "none" /\ ev'.op = "mouseover" /\ ~props.selectOnHover) =>
                /\ calls = <<>>
                /\ list'.focusRow = list.focusRow
                /\ list'.scrollToRow = list.scrollToRow
                /\ ~list'.updatePending /\ ~list'.gridUpdatePending ]_vars

\* With selectOnHover, the pointer is over row 1 of two rows, which the
\* predicate accepts and which is not selected: the hover was reported.
C12_Witness ==
  /\ ev.op = "mouseover" /\ ev.row = 1 /\ props.selectOnHover
  /\ props.rowCount = 2 /\ props.selectedRow = 0
  /\ props.canSelectRow.defined /\ 1 \in props.canSelectRow.rows
  /\ list.calls[1] = [fn |-> "onSelectionChanged", row |-> 1, kind |-> "hover"]

\* The token of L is in the id pool.
HoldsId(L) == L.rowIdPrefix # {} /\ L.rowIdPrefix \subseteq env.activeIds

\* C13: the row id token is held exactly from mount to unmount.  Before the
\* mount the List has no token; while mounted it holds one, which no other
\* List holds; after the unmount it holds none.  state.rowIdPrefix is set
\* once, by the mount, to a token that was not in use, and a token leaves the
\* pool only by the unmount of the List holding it.
C13_IdHeldFromMountToUnmount ==
  /\ [](/\ list.phase = "constructed" => list.rowIdPrefix = {}
        /\ list.phase = "mounted" =>
             /\ HoldsId(list) /\ HoldsId(twin)
             /\ list.rowIdPrefix \cap twin.rowIdPrefix = {}
        /\ list.phase = "unmounted" =>
             /\ list.rowIdPrefix \cap env.activeIds = {}
             /\ env.activeIds = {})
  /\ [][ /\ list'.rowIdPrefix # list.rowIdPrefix =>
             /\ ev'.op = "mount" /\ list.phase = "constructed" /\ list'.phase = "mounted"
             /\ list.rowIdPrefix = {}
             /\ list'.rowIdPrefix \cap env.activeIds = {}
         /\ env.activeIds \ env'.activeIds # {} =>
             /\ ev'.op = "unmount" /\ list.phase = "mounted" /\ list'.phase = "unmounted"
             /\ env.activeIds \ env'.activeIds = list.rowIdPrefix \cup twin.rowIdPrefix
         /\ list'.phase # list.phase =>
             <<list.phase, list'.phase>> \in {<<"constructed", "mounted">>,
                                              <<"mounted", "unmounted">>} ]_vars

\* A List that was resized while mounted is unmounted: its token is out of
\* the pool.
C13_Witness ==
  /\ list.phase = "unmounted" /\ ev.op = "unmount"
  /\ list.rowIdPrefix = {<<"ListRow", 0>>}
  /\ Truthy(list.width)
  /\ env.activeIds = {}

\* Nothing is left to do: no task runs and no scroll event is pending.
Settled == Ready /\ list.scrollEvents = {}

\* The writes of scrollTop in a trace.
ScrollWrites(calls) == SelectSeq(calls, LAMBDA c : c.fn = "scrollTop=")

\* C14: with the Grid and the fake scroll bar in place, a scroll event of the
\* Grid with lastScroll # fake writes the Grid's offset to the fake scroll bar
\* (one write) and sets lastScroll = grid; the scroll event of the fake scroll
\* bar that this write causes resets lastScroll to null and writes nothing; and
\* the same with the two exchanged.  So each scroll is mirrored once and only
\* once: when every scroll event has been handled the two offsets agree and
\* lastScroll is null.
C14_MirroredOnceNoPingPong ==
  /\ [][ (ev.op = "none" /\ list.grid /\ list.fakeScroll) =>
           LET writes == ScrollWrites(list'.calls)
           IN  /\ (ev'.op = "gridscroll" /\ list.lastScroll # "fake") =>
                     /\ writes = <<[fn |-> "scrollTop=", row |-> list.gridScrollTop,
                                    kind |-> "fake"]>>
                     /\ list'.lastScroll = "grid"
                     /\ list'.fakeScrollTop = list.gridScrollTop
               /\ (ev'.op = "fakescroll" /\ list.lastScroll # "grid") =>
                     /\ writes = <<[fn |-> "scrollTop=", row |-> list.fakeScrollTop,
                                    kind |-> "grid"]>>
                     /\ list'.lastScroll = "fake"
                     /\ list'.gridScrollTop = list.fakeScrollTop
               /\ (ev'.op = "gridscroll" /\ list.lastScroll = "fake") =>
                     writes = <<>> /\ list'.lastScroll = "null"
               /\ (ev'.op = "fakescroll" /\ list.lastScroll = "grid") =>
                     writes = <<>> /\ list'.lastScroll = "null" ]_vars
  /\ []((Settled /\ list.grid /\ list.fakeScroll) =>
          /\ list.gridScrollTop = list.fakeScrollTop
          /\ list.lastScroll = "null")

\* C15: at most one deferred onResized call is pending, and it is the one
\* updateSizeTimeoutId names.  A resize notification that finds a call pending
\* clears it (and clears nothing otherwise) and schedules another, so one call
\* is pending after any number of notifications.  onResized leaves no call pending and no marker, and it
\* updates the List, setting the state to the size it measured, only when
\* that size differs from the state.
C15_ResizeDebounced ==
  /\ [](/\ Cardinality(list.immediates) <= 1
        /\ list.immediates = list.updateSizeTimeoutId)
  /\ [][ /\ (ev.op = "none" /\ ev'.op = "resize") =>
             /\ Cardinality(list'.immediates) = 1
             /\ list'.immediates \cap list.immediates = {}
             /\ { list'.calls[i].row : i \in CallsOf(list'.calls, "clearImmediate") }
                  = list.immediates
             /\ list'.updateSizeTimeoutId = list'.immediates
             /\ list'.width = list.width /\ list'.height = list.height
         /\ (ev.op = "none" /\ ev'.op = "onResized") =>
             LET measured == [c \in {"offsetWidth", "offsetHeight"} |->
                                { list'.calls[i].row : i \in CallsOf(list'.calls, c) }]
                 differs == \/ list.width # measured["offsetWidth"]
                            \/ list.height # measured["offsetHeight"]
             IN  /\ Cardinality(list.immediates) = 1
                 /\ list'.immediates = {} /\ list'.updateSizeTimeoutId = {}
                 /\ Cardinality(measured["offsetWidth"]) = 1
                 /\ Cardinality(measured["offsetHeight"]) = 1
                 /\ list'.width = IF differs THEN measured["offsetWidth"] ELSE list.width
                 /\ list'.height = IF differs THEN measured["offsetHeight"] ELSE list.height
                 /\ list'.updates = IF differs THEN 1 ELSE 0 ]_vars

\* A second notification arrived while the call of the first was pending: the
\* one call pending is the second's.
C15_Witness ==
  /\ ev.op = "resize"
  /\ list.updateSizeTimeoutId = {2}
  /\ list.immediates = {2}
  /\ Truthy(list.width)

\* C16: once componentWillUnmount ran, whatever resize notifications came
\* before it, no deferred callback is pending, updateSizeTimeoutId is null and
\* the observer is disconnected; from then on no resize notification arrives,
\* onResized does not run and the width and height of the state stay as they
\* are.
C16_NoResizeAfterUnmount ==
  /\ [](list.phase = "unmounted" =>
          /\ list.updateSizeTimeoutId = {}
          /\ list.immediates = {}
          /\ ~list.observing)
  /\ [][ list.phase = "unmounted" =>
           /\ ev'.op \notin {"resize", "onResized"}
           /\ list'.width = list.width
           /\ list'.height = list.height ]_vars

\* The List was unmounted while a deferred callback was pending: the unmount
\* cleared it.
C16_Witness ==
  /\ list.phase = "unmounted" /\ ev.op = "unmount"
  /\ CallsOf(list.calls, "clearImmediate") # {}
  /\ Truthy(list.width) /\ Truthy(list.height)
  /\ list.immediates = {}

\* The calls an update of the List added to the trace.
NewCalls == IF ev'.op = ev.op THEN SubSeq(list'.calls, Len(list.calls) + 1, Len(list'.calls))
            ELSE list'.calls

\* C17: an update of the List in which componentDidUpdate has no focus to
\* apply (new props, a new size, or a forced update) calls grid.forceUpdate if
\* and only if a Grid exists, rowCount, width and height are what they were
\* before the update, and selectedRow changed or the new invalidationProps are
\* not shallow-equal to the previous ones.
C17_GridForcedOnlyWhenNeeded ==
  [][ (list'.updates = list.updates + 1 /\ CallsOf(NewCalls, "focus") = {}) =>
        ( CallsOf(NewCalls, "grid.forceUpdate") # {}
          <=> /\ list'.grid
              /\ props'.rowCount = props.rowCount
              /\ list'.width = list.width
              /\ list'.height = list.height
              /\ \/ props'.selectedRow # props.selectedRow
                 \/ /\ ev.op = "none" /\ ev'.op = "props"
                    /\ ~shallowEquals(PrevInvalidationProps, ev'.invalidationProps) ) ]_vars

\* New props with the same rowCount and selectedRow and other
\* invalidationProps, with the Grid in place: the Grid was forced to update.
C17_Witness ==
  /\ ev.op = "props" /\ ev.row = 0 /\ props.selectedRow = 0
  /\ ev.invalidationProps = [ref |-> 1, value |-> 1]
  /\ list.grid /\ list.updates = 1
  /\ list.calls = <<[fn |-> "grid.forceUpdate", row |-> -1, kind |-> "grid"]>>

\* C18: an update of the List whose componentDidUpdate finds focusRow >= 0 and
\* the element of that row registered calls focus() on it once, resets
\* focusRow to -1 and enqueues one more update; an update that finds no
\* element registered calls no focus() and leaves focusRow as it is.  The
\* update that follows a focus() call enqueues nothing, so a task calls focus()
\* on a row at most once and holds at most two updates of the List.
C18_FocusAppliedOnce ==
  /\ [](/\ Len(FocusCalls(list.calls)) <= 1
        /\ list.updates <= 2)
  /\ [][ list'.updates = list.updates + 1 =>
           LET focused == FocusCalls(NewCalls)
           IN  /\ Len(focused) <= 1
               /\ Len(focused) = 1 =>
                     /\ list.focusRow >= 0
                     /\ focused[1].row = list.focusRow
                     /\ list'.focusRow = -1
                     /\ list'.updatePending
               /\ Len(focused) = 0 =>
                     /\ list'.focusRow = list.focusRow
                     /\ list'.focusRow >= 0 => list'.focusItem = {}
               /\ (ev'.op = ev.op /\ FocusCalls(list.calls) # <<>>) =>
                     /\ focused = <<>>
                     /\ ~list'.updatePending /\ ~list'.gridUpdatePending ]_vars

\* ArrowDown moved the selection to row 1: the first update called focus() on
\* the element of row 1, the second one found nothing to do.
C18_Witness ==
  /\ ev.op = "keydown" /\ ev.key = "ArrowDown"
  /\ FocusCalls(list.calls) = <<[fn |-> "focus", row |-> 1, kind |-> "row"]>>
  /\ list.updates = 2 /\ list.focusRow = -1
  /\ Idle

====
